---------------------------- MODULE Spec2Model ----------------------------
(***************************************************************************)
(* TypoGard-Crates (src/typogard_crates.py): the typosquatting detection   *)
(* engine, modelled as a state machine.                                    *)
(*                                                                         *)
(* Crate names and descriptions are sequences of one-character strings,    *)
(* because the code works on them character by character.  Owner logins,   *)
(* URLs and file references are only ever compared for equality and are    *)
(* plain strings.  Python's None is None (for the plain strings) and       *)
(* NoDescription (for a description).                                      *)
(*                                                                         *)
(* Similarities are in thousandths: 970 stands for 0.97.                   *)
(***************************************************************************)
EXTENDS Integers, Sequences, FiniteSets, TLC

VARIABLES
    pc,                       \* where main() is
    args,                     \* the parsed command line (global args)
    db,                       \* the registry snapshot behind the cursor
    crates,                   \* global crates: a dict, kept in insertion order
    popular_package_list,     \* global: crates.keys(), a live view of the dict
    popular_package_set,      \* global: set(popular_package_list) at line 626
    popular_bitflips,         \* global: bitflip -> list of popular names
    todo,                     \* what is left of sorted(crates) in the loop
    checked,                  \* what each iteration of the loop found, in order
    potential_typosquatting_found,   \* the counter of main()
    stdout,                   \* the WARNING lines printed so far
    summary,                  \* the final line printed, "" before it
    download_log,             \* every call of download_latest and how it ended
    exit_status               \* the process exit status, -1 while running

vars == <<pc, args, db, crates, popular_package_list, popular_package_set,
          popular_bitflips, todo, checked, potential_typosquatting_found,
          stdout, summary, download_log, exit_status>>

None == "None"
NoDescription == <<"None">>

-----------------------------------------------------------------------------
(* Characters.                                                             *)

Range(s) == {s[i] : i \in DOMAIN s}

UpperCase == <<"A","B","C","D","E","F","G","H","I","J","K","L","M",
               "N","O","P","Q","R","S","T","U","V","W","X","Y","Z">>
LowerCase == <<"a","b","c","d","e","f","g","h","i","j","k","l","m",
               "n","o","p","q","r","s","t","u","v","w","x","y","z">>
Digits == <<"0","1","2","3","4","5","6","7","8","9">>

\* The bytes of the characters the model knows (ASCII).
CharCode ==
    [c \in Range(UpperCase) |-> 64 + (CHOOSE i \in DOMAIN UpperCase : UpperCase[i] = c)]
    @@ [c \in Range(LowerCase) |-> 96 + (CHOOSE i \in DOMAIN LowerCase : LowerCase[i] = c)]
    @@ [c \in Range(Digits) |-> 47 + (CHOOSE i \in DOMAIN Digits : Digits[i] = c)]
    @@ ("-" :> 45) @@ ("_" :> 95) @@ ("." :> 46) @@ (" " :> 32) @@ ("\n" :> 10)

\* ord(c)
Ord(c) == CharCode[c]

\* The character of a byte; "#" stands for every byte that is none of the
\* characters above (no such byte may occur in a crate name).
Chr(n) ==
    IF n \in 65..90 THEN UpperCase[n - 64]
    ELSE IF n \in 97..122 THEN LowerCase[n - 96]
    ELSE IF n \in 48..57 THEN Digits[n - 47]
    ELSE IF n = 45 THEN "-"
    ELSE IF n = 95 THEN "_"
    ELSE IF n = 46 THEN "."
    ELSE IF n = 32 THEN " "
    ELSE IF n = 10 THEN "\n"
    ELSE "#"

\* s[i:j] of Python, on 0-based i and j.
Slice(s, i, j) == SubSeq(s, i + 1, j)

RECURSIVE Flatten(_)
Flatten(ss) == IF ss = <<>> THEN <<>> ELSE Head(ss) \o Flatten(Tail(ss))

\* Python's order on str: by code point, a proper prefix first.
RECURSIVE StrLess(_, _)
StrLess(a, b) ==
    IF b = <<>> THEN FALSE
    ELSE IF a = <<>> THEN TRUE
    ELSE IF Ord(Head(a)) # Ord(Head(b)) THEN Ord(Head(a)) < Ord(Head(b))
    ELSE StrLess(Tail(a), Tail(b))

-----------------------------------------------------------------------------
(* Constants of the program.                                               *)

DEFAULT_SIMILARITY_THRESHOLD == 970

DELIMITERS == << <<>>, <<"-">>, <<"_">> >>

ALLOWED_CHARACTERS ==
    UpperCase \o LowerCase \o <<"1","2","3","4","5","6","7","8","9","0","-","_">>

\* The characters of [A-Za-z0-9_-]
NameCharacters ==
    Range(UpperCase) \cup Range(LowerCase) \cup Range(Digits) \cup {"_", "-"}

\* CRATE_NAME_REGEX.search(s) is not None.  The pattern is
\* ^[A-Za-z0-9_-]+$, and $ matches at the end of s and also before a
\* newline that is the last character of s.
CRATE_NAME_REGEX(s) ==
    LET body == IF s # <<>> /\ s[Len(s)] = "\n"
                THEN SubSeq(s, 1, Len(s) - 1) ELSE s
    IN  /\ body # <<>>
        /\ \A i \in DOMAIN body : body[i] \in NameCharacters

-----------------------------------------------------------------------------
(* The table of common typos, as in the source: an entry is the text that  *)
(* replaces the character, of length 0, 1 or 2.                            *)

\* A table that also has the digit-for-letter replacements 4 for a.
TYPOS_with_digit_for_letter ==
    "4" :> <<"3", "e", "r", "5", "a">> @@
    "s" :> <<"w", "d", "x", "z", "a", "5">>

TYPOS ==
    "1" :> <<"2", "q", "i", "l">> @@
    "2" :> <<"1", "q", "w", "3">> @@
    "3" :> <<"2", "w", "e", "4">> @@
    "4" :> <<"3", "e", "r", "5">> @@
    "5" :> <<"4", "r", "t", "6", "s">> @@
    "6" :> <<"5", "t", "y", "7">> @@
    "7" :> <<"6", "y", "u", "8">> @@
    "8" :> <<"7", "u", "i", "9">> @@
    "9" :> <<"8", "i", "o", "0">> @@
    "0" :> <<"9", "o", "p", "-">> @@
    "-" :> <<"_", "0", "p", ".", "">> @@
    "_" :> <<"-", "0", "p", ".", "">> @@
    "q" :> <<"1", "2", "w", "a">> @@
    "w" :> <<"2", "3", "e", "s", "a", "q", "vv">> @@
    "e" :> <<"3", "4", "r", "d", "s", "w">> @@
    "r" :> <<"4", "5", "t", "f", "d", "e">> @@
    "t" :> <<"5", "6", "y", "g", "f", "r">> @@
    "y" :> <<"6", "7", "u", "h", "t", "i">> @@
    "u" :> <<"7", "8", "i", "j", "y", "v">> @@
    "i" :> <<"1", "8", "9", "o", "l", "k", "j", "u", "y">> @@
    "o" :> <<"9", "0", "p", "l", "i">> @@
    "p" :> <<"0", "-", "o">> @@
    "a" :> <<"q", "w", "s", "z">> @@
    "s" :> <<"w", "d", "x", "z", "a", "5">> @@
    "d" :> <<"e", "r", "f", "c", "x", "s">> @@
    "f" :> <<"r", "g", "v", "c", "d">> @@
    "g" :> <<"t", "h", "b", "v", "f">> @@
    "h" :> <<"y", "j", "n", "b", "g">> @@
    "j" :> <<"u", "i", "k", "m", "n", "h">> @@
    "k" :> <<"i", "o", "l", "m", "j">> @@
    "l" :> <<"i", "o", "p", "k", "1">> @@
    "z" :> <<"a", "s", "x">> @@
    "x" :> <<"z", "s", "d", "c">> @@
    "c" :> <<"x", "d", "f", "v">> @@
    "v" :> <<"c", "f", "g", "b", "u">> @@
    "b" :> <<"v", "g", "h", "n">> @@
    "n" :> <<"b", "h", "j", "m">> @@
    "m" :> <<"n", "j", "k", "rn">> @@
    "." :> <<"-", "_", "">>

\* The characters of a replacement text of TYPOS.
Explode(t) ==
    IF t = "" THEN <<>>
    ELSE IF t = "vv" THEN <<"v", "v">>
    ELSE IF t = "rn" THEN <<"r", "n">>
    ELSE <<t>>

-----------------------------------------------------------------------------
(* The crates dict.  Python keeps a dict in insertion order, and           *)
(* popular_package_list is a view of its keys, so the dict is a sequence   *)
(* of entries, each with its key in the field name.                        *)

Keys(d) == [i \in DOMAIN d |-> d[i].name]

HasKey(d, k) == \E i \in DOMAIN d : d[i].name = k

\* d[k]
Get(d, k) == d[CHOOSE i \in DOMAIN d : d[i].name = k]

\* check if two crates have an author in common
same_author(p1, p2) ==
    \E i \in DOMAIN Get(crates, p1).authors :
        Get(crates, p1).authors[i] \in Range(Get(crates, p2).authors)

\* The test every mutator but bitflips applies to a name s it has formed.
IsTarget(package_name, s) ==
    /\ s \in popular_package_set
    /\ ~same_author(package_name, s)
    /\ s # package_name

\* The first package of the list, whatever popular_package_list says.
get_most_popular_package_first_found(packages) == packages[1]

\* The first element of popular_package_list that is in packages, else
\* packages[0].
get_most_popular_package(packages) ==
    IF \E i \in DOMAIN popular_package_list :
           popular_package_list[i] \in Range(packages)
    THEN popular_package_list[
             CHOOSE i \in DOMAIN popular_package_list :
                 /\ popular_package_list[i] \in Range(packages)
                 /\ \A j \in 1..(i - 1) : popular_package_list[j] \notin Range(packages)]
    ELSE packages[1]

\* The tail every mutator with a return_all flag ends with.
Collapse(found, return_all) ==
    IF return_all \/ Len(found) = 0 THEN found
    ELSE <<get_most_popular_package(found)>>

Targets(package_name, formed) ==
    SelectSeq(formed, LAMBDA s : IsTarget(package_name, s))

-----------------------------------------------------------------------------
(* The mutators.  Each forms names from package_name in the order of the   *)
(* code's loops and keeps those that pass IsTarget.                        *)

repeated_characters(package_name, return_all) ==
    LET n == Len(package_name)
        \* i is the 0-based index of the loop
        formed == Flatten([k \in 1..n |->
                     LET i == k - 1 IN
                     IF i + 1 < n /\ package_name[k + 1] = package_name[k]
                     THEN << Slice(package_name, 0, i) \o Slice(package_name, i + 1, n) >>
                     ELSE <<>>])
    IN  Collapse(Targets(package_name, formed), return_all)

\* The mutator without the test of the length.
omitted_chars_of_any_length(package_name, return_all) ==
    LET n == Len(package_name)
        m == Len(ALLOWED_CHARACTERS)
        formed == [k \in 1..((n + 1) * m) |->
                     LET i == (k - 1) \div m
                         c == ALLOWED_CHARACTERS[((k - 1) % m) + 1]
                     IN  Slice(package_name, 0, i) \o <<c>> \o Slice(package_name, i, n)]
    IN  Collapse(Targets(package_name, formed), return_all)

omitted_chars(package_name, return_all) ==
    LET n == Len(package_name)
        m == Len(ALLOWED_CHARACTERS)
        formed == [k \in 1..((n + 1) * m) |->
                     LET i == (k - 1) \div m
                         c == ALLOWED_CHARACTERS[((k - 1) % m) + 1]
                     IN  Slice(package_name, 0, i) \o <<c>> \o Slice(package_name, i, n)]
    IN  IF n < 4 THEN <<>>
        ELSE Collapse(Targets(package_name, formed), return_all)

swapped_characters(package_name, return_all) ==
    LET n == Len(package_name)
        formed == [k \in 1..(n - 1) |->
                     [package_name EXCEPT ![k] = package_name[k + 1],
                                          ![k + 1] = package_name[k]]]
    IN  Collapse(Targets(package_name, formed), return_all)

\* DELIMITER_REGEX.sub(' ', package_name).split(): the maximal runs of
\* characters that are no delimiter.
RECURSIVE Tokens(_, _)
Tokens(s, cur) ==
    IF s = <<>> THEN (IF cur = <<>> THEN <<>> ELSE <<cur>>)
    ELSE IF Head(s) \in {"_", "-", " "}
         THEN (IF cur = <<>> THEN <<>> ELSE <<cur>>) \o Tokens(Tail(s), <<>>)
         ELSE Tokens(Tail(s), Append(cur, Head(s)))

\* The tokens in their own order only.
permutations_in_order(tokens) == <<tokens>>

\* itertools.permutations(tokens), in its order.
RECURSIVE permutations(_)
permutations(tokens) ==
    IF tokens = <<>> THEN << <<>> >>
    ELSE Flatten([i \in DOMAIN tokens |->
             LET rest == Slice(tokens, 0, i - 1) \o Slice(tokens, i, Len(tokens))
                 sub == permutations(rest)
             IN  [j \in DOMAIN sub |-> <<tokens[i]>> \o sub[j]]])

\* d.join(p)
RECURSIVE Join(_, _)
Join(d, p) ==
    IF p = <<>> THEN <<>>
    ELSE IF Len(p) = 1 THEN p[1]
    ELSE p[1] \o d \o Join(d, Tail(p))

swapped_words(package_name, return_all) ==
    LET tokens == Tokens(package_name, <<>>)
        perms == permutations(tokens)
        nd == Len(DELIMITERS)
        formed == [k \in 1..(Len(perms) * nd) |->
                     Join(DELIMITERS[((k - 1) % nd) + 1], perms[((k - 1) \div nd) + 1])]
    IN  IF ~\E i \in DOMAIN package_name : package_name[i] \in {"_", "-"} THEN <<>>
        ELSE IF Len(tokens) > 8 THEN <<>>
        ELSE Collapse(Targets(package_name, formed), return_all)

common_typos(package_name, return_all) ==
    LET n == Len(package_name)
        formed == Flatten([k \in 1..n |->
                     IF package_name[k] \in DOMAIN TYPOS
                     THEN [j \in DOMAIN TYPOS[package_name[k]] |->
                              SubSeq(package_name, 1, k - 1)
                                  \o Explode(TYPOS[package_name[k]][j])
                                  \o SubSeq(package_name, k + 1, n)]
                     ELSE <<>>])
    IN  Collapse(Targets(package_name, formed), return_all)

\* [_-]?\d+$ matches the whole of s.
VersionSuffix(s) ==
    LET t == IF s # <<>> /\ Head(s) \in {"_", "-"} THEN Tail(s) ELSE s
    IN  /\ t # <<>>
        /\ \A i \in DOMAIN t : t[i] \in Range(Digits)

\* The match of ^(.*)[_-]?\d+$, whose group 1 is greedy.
VERSION_NUMBER_REGEX_greedy(package_name) ==
    LET n == Len(package_name)
        cuts == {k \in 0..n : VersionSuffix(Slice(package_name, k, n))}
    IN  IF cuts = {} THEN [matched |-> FALSE, group1 |-> <<>>]
        ELSE [matched |-> TRUE,
              group1 |-> Slice(package_name, 0, CHOOSE k \in cuts : \A l \in cuts : k >= l)]

\* VERSION_NUMBER_REGEX.match(package_name): whether it matches, and its
\* group 1, the shortest prefix (.*? is lazy) that a version suffix follows.
VERSION_NUMBER_REGEX(package_name) ==
    LET n == Len(package_name)
        cuts == {k \in 0..n : VersionSuffix(Slice(package_name, k, n))}
    IN  IF cuts = {} THEN [matched |-> FALSE, group1 |-> <<>>]
        ELSE [matched |-> TRUE,
              group1 |-> Slice(package_name, 0, CHOOSE k \in cuts : \A l \in cuts : k <= l)]

version_numbers(package_name) ==
    LET m == VERSION_NUMBER_REGEX(package_name)
    IN  IF m.matched /\ IsTarget(package_name, m.group1) THEN <<m.group1>>
        ELSE <<>>

bitflips(package_name) ==
    IF package_name \in DOMAIN popular_bitflips
    THEN popular_bitflips[package_name]
    ELSE <<>>
-----------------------------------------------------------------------------
(* The bitflip index.                                                      *)

\* byte n with bit b inverted
FlipBit(n, b) ==
    IF (n \div (2 ^ b)) % 2 = 1 THEN n - (2 ^ b) ELSE n + (2 ^ b)

\* blip.get_string_blips(blip.get_blips(package_name)), filtered by
\* CRATE_NAME_REGEX: every string one inverted bit away from package_name
\* that is a valid crate name.
blips(package_name) ==
    LET n == Len(package_name)
        string_blips == [k \in 1..(8 * n) |->
            LET i == ((k - 1) \div 8) + 1
                b == (k - 1) % 8
            IN  [package_name EXCEPT ![i] = Chr(FlipBit(Ord(package_name[i]), b))]]
    IN  SelectSeq(string_blips, CRATE_NAME_REGEX)

\* The inner loop of generate_bitflips for one crate:
\* for bf in blips(crate_name): d.setdefault(bf, []).append(crate_name),
\* which appends crate_name under bf once for each occurrence of bf.
AddBlips(d, bfs, crate_name) ==
    [m \in DOMAIN d \cup Range(bfs) |->
        (IF m \in DOMAIN d THEN d[m] ELSE <<>>)
            \o [k \in 1..Cardinality({i \in DOMAIN bfs : bfs[i] = m}) |-> crate_name]]

\* The loops of generate_bitflips, over popular_package_set in the order
\* `order` (the iteration order of a Python set is arbitrary).
RECURSIVE generate_bitflips(_, _)
generate_bitflips(d, order) ==
    IF order = <<>> THEN d
    ELSE generate_bitflips(AddBlips(d, blips(Head(order)), Head(order)), Tail(order))

\* The orders in which a set may be iterated.
Orders(S) == {s \in [1..Cardinality(S) -> S] : Range(s) = S}

-----------------------------------------------------------------------------
(* The allowlist.                                                          *)

\* An allowlist test that looks at the owners only.
allowlisted_by_owner(package_name) ==
    LET c == Get(crates, package_name) IN
    \/ Range(c.authors) = {"blallo"}
    \/ Range(c.authors) = {"skerkour"}

allowlisted(package_name) ==
    LET c == Get(crates, package_name) IN
    \/ /\ Range(c.authors) = {"blallo"}
       /\ c.homepage = "https://xkcd.com/386"
       /\ c.documentation = "https://crates.io/policies"
       /\ c.repository = "https://github.com/blallo/xkcd-386"
    \/ /\ Range(c.authors) = {"skerkour"}
       /\ c.repository = "https://github.com/skerkour/black-hat-rust"

-----------------------------------------------------------------------------
(* The similarity filter.                                                  *)

WhiteSpace == {" "}

\* d.strip() == ''
StripsToEmpty(d) == \A i \in DOMAIN d : d[i] \in WhiteSpace

\* The embedding model (spaCy's en_core_web_lg) is an external service.  It
\* is modelled by a small vocabulary: a text has a vector iff one of its
\* characters is in the vocabulary.
OutOfVocabulary == {"z", " "}

\* nlp(d).vector_norm, zero or not
vector_norm(d) == IF \A i \in DOMAIN d : d[i] \in OutOfVocabulary THEN 0 ELSE 1

\* refdoc.similarity(thisdoc), in thousandths
similarity(d1, d2) ==
    IF d1 = d2 THEN 1000
    ELSE IF {d1, d2} = {<<"a", "b">>, <<"a", "c">>} THEN 970
    ELSE 500

Min3(a, b, c) == IF a <= b /\ a <= c THEN a ELSE IF b <= c THEN b ELSE c

\* rapidfuzz.distance.Levenshtein.distance of two strings
RECURSIVE Levenshtein(_, _)
Levenshtein(a, b) ==
    IF a = <<>> THEN Len(b)
    ELSE IF b = <<>> THEN Len(a)
    ELSE IF Head(a) = Head(b) THEN Levenshtein(Tail(a), Tail(b))
    ELSE 1 + Min3(Levenshtein(Tail(a), b),
                  Levenshtein(a, Tail(b)),
                  Levenshtein(Tail(a), Tail(b)))

Description(t) == Get(crates, t).description

IsBlank(d) == d = NoDescription \/ StripsToEmpty(d)

\* The targets kept when the description of the crate is blank, line 656.
BlankKept_none_only(potential_targets) ==
    {t \in potential_targets : Description(t) = NoDescription}

BlankKept(potential_targets) ==
    {t \in potential_targets : IsBlank(Description(t))}

\* The targets with a text that the model cannot embed, lines 670 and 671.
Unembeddable_ignored(texts) == {}

Unembeddable(texts) == {t \in texts : vector_norm(Description(t)) = 0}

\* The targets kept in semantic mode.
SemanticKept_inclusive(package, potential_targets) ==
    {t \in potential_targets :
        /\ ~IsBlank(Description(t))
        /\ similarity(Description(package), Description(t)) >= args.similarity_threshold}

SemanticKept(package, potential_targets) ==
    {t \in potential_targets :
        /\ ~IsBlank(Description(t))
        /\ similarity(Description(package), Description(t)) > args.similarity_threshold}

\* The targets kept in the Levenshtein fallback.
LevenshteinKept_inclusive(package, potential_targets) ==
    {t \in potential_targets :
        Levenshtein(Description(package), Description(t)) <= args.levenshtein_threshold}

LevenshteinKept(package, potential_targets) ==
    {t \in potential_targets :
        Levenshtein(Description(package), Description(t)) < args.levenshtein_threshold}

\* filter_targets(nlp, package, potential_targets).  raised is the exception
\* that leaves the function ("" when it returns), targets the dict returned,
\* mode the branch taken, and embedded, compared and measured the
\* descriptions given to nlp(), the targets given to similarity() and the
\* targets given to Levenshtein.distance() (when an exception leaves the
\* function, those that may have been given before it, the order of the
\* targets being arbitrary).  Levenshtein.distance raises TypeError on None.
filter_targets(package, potential_targets) ==
    LET d == Description(package) IN
    IF IsBlank(d)
    THEN [raised |-> "", mode |-> "blank",
          targets |-> [t \in BlankKept(potential_targets) |-> 100],
          embedded |-> {}, compared |-> {}, measured |-> {}]
    ELSE IF vector_norm(d) = 0
    THEN IF \E t \in potential_targets : Description(t) = NoDescription
         THEN [raised |-> "TypeError", mode |-> "levenshtein",
               targets |-> <<>>,
               embedded |-> {d}, compared |-> {},
               measured |-> {t \in potential_targets : Description(t) # NoDescription}]
         ELSE [raised |-> "", mode |-> "levenshtein",
               targets |-> [t \in LevenshteinKept(package, potential_targets) |->
                               Levenshtein(d, Description(t))],
               embedded |-> {d}, compared |-> {}, measured |-> potential_targets]
    ELSE LET texts == {t \in potential_targets : ~IsBlank(Description(t))} IN
         IF Unembeddable(texts) # {}
         THEN [raised |-> "ValueError", mode |-> "semantic",
               targets |-> <<>>,
               embedded |-> {d} \cup {Description(t) : t \in texts},
               compared |-> texts \ Unembeddable(texts),
               measured |-> {}]
         ELSE [raised |-> "", mode |-> "semantic",
               targets |-> [t \in SemanticKept(package, potential_targets) |->
                               similarity(d, Description(t))],
               embedded |-> {d} \cup {Description(t) : t \in texts},
               compared |-> texts, measured |-> {}]

-----------------------------------------------------------------------------
(* All signals together.                                                   *)

\* Lists are objects: x += y extends, in place, the list that x is bound to
\* and leaves y as it is.  The heap below holds the lists that matter to
\* get_typosquatting_targets: those of the bitflip index, each under its
\* key, and the list made at line 480, under Local.
Local == <<"potential_typosquatting_targets">>

\* x += y, for x bound to the list at ref and y of value `list`
IAdd(heap, ref, list) == [heap EXCEPT ![ref] = @ \o list]

\* The list that the name potential_typosquatting_targets is bound to from
\* line 480 on: the new list [], and += never rebinds it.
AccumulatorRef_first_result(package_name) ==
    IF package_name \in DOMAIN popular_bitflips THEN package_name ELSE Local

AccumulatorRef(package_name) == Local

\* Lines 480 to 489: the heap after the seven += statements.
Accumulate(package_name) ==
    LET x == AccumulatorRef(package_name)
        h0 == (Local :> <<>>) @@ popular_bitflips
        h1 == IAdd(h0, x, repeated_characters(package_name, TRUE))
        h2 == IAdd(h1, x, omitted_chars(package_name, TRUE))
        h3 == IAdd(h2, x, swapped_characters(package_name, TRUE))
        h4 == IAdd(h3, x, swapped_words(package_name, TRUE))
        h5 == IAdd(h4, x, common_typos(package_name, TRUE))
        h6 == IAdd(h5, x, version_numbers(package_name))
    IN  [heap |-> IAdd(h6, x, bitflips(package_name)), ref |-> x]

\* The list the seven mutators add up to, lines 480 to 489.
RawTargets(package_name) ==
    LET acc == Accumulate(package_name) IN acc.heap[acc.ref]

NothingFound ==
    [raised |-> "", mode |-> "none", targets |-> <<>>,
     embedded |-> {}, compared |-> {}, measured |-> {}]

get_typosquatting_targets_unguarded(package_name) ==
    IF allowlisted(package_name)
    THEN [NothingFound EXCEPT !.mode = "allowlisted"]
             @@ [raw |-> {}, index |-> popular_bitflips]
    ELSE LET acc == Accumulate(package_name)
             raw == Range(acc.heap[acc.ref])
         IN  filter_targets(package_name, raw)
                 @@ [raw |-> raw,
                     index |-> [k \in DOMAIN popular_bitflips |-> acc.heap[k]]]

\* get_typosquatting_targets(package_name, nlp): what filter_targets gives
\* on the deduplicated list, with that list in the field raw and the
\* bitflip index as the call leaves it in the field index; nothing for a
\* popular or an allowlisted crate.
get_typosquatting_targets(package_name) ==
    IF package_name \in popular_package_set
    THEN [NothingFound EXCEPT !.mode = "popular"]
             @@ [raw |-> {}, index |-> popular_bitflips]
    ELSE IF allowlisted(package_name)
    THEN [NothingFound EXCEPT !.mode = "allowlisted"]
             @@ [raw |-> {}, index |-> popular_bitflips]
    ELSE LET acc == Accumulate(package_name)
             raw == Range(acc.heap[acc.ref])
         IN  filter_targets(package_name, raw)
                 @@ [raw |-> raw,
                     index |-> [k \in DOMAIN popular_bitflips |-> acc.heap[k]]]

-----------------------------------------------------------------------------
(* The registry database.  db is the list of the registry's crates in      *)
(* descending order of recent downloads, each with the logins its owner    *)
(* rows join to (None for an owner row that joins to no user and no team,  *)
(* and for a crate without owner rows) and the number of its versions that *)
(* are not yanked and were updated in the --days window.                   *)

\* One row per owner of each of the first `limit` crates.
get_top_crates(limit) ==
    Flatten([i \in 1..(IF limit < Len(db) THEN limit ELSE Len(db)) |->
        [j \in DOMAIN db[i].logins |->
            [name |-> db[i].name, login |-> db[i].logins[j],
             homepage |-> db[i].homepage, repository |-> db[i].repository,
             documentation |-> db[i].documentation,
             description |-> db[i].description, downloads |-> db[i].downloads]]])

\* One row per owner and recent version of each crate after the first
\* `limit`.
get_crates_to_check(limit) ==
    Flatten([k \in 1..(IF limit < Len(db) THEN Len(db) - limit ELSE 0) |->
        LET i == limit + k
            nl == Len(db[i].logins)
        IN  [j \in 1..(nl * db[i].recent_versions) |->
                [name |-> db[i].name, login |-> db[i].logins[((j - 1) % nl) + 1],
                 homepage |-> db[i].homepage, repository |-> db[i].repository,
                 documentation |-> db[i].documentation,
                 description |-> db[i].description, downloads |-> db[i].downloads]]])

\* The loop of populate_crate_lists over the rows of a query:
\* crates.setdefault(r['name'], {...})['authors'].append(r['login'])
RECURSIVE LoadRows(_, _)
LoadRows(d, rows) ==
    IF rows = <<>> THEN d
    ELSE LET r == Head(rows)
             entry == [name |-> r.name, homepage |-> r.homepage,
                       repository |-> r.repository,
                       documentation |-> r.documentation,
                       description |-> r.description,
                       downloads |-> r.downloads, authors |-> <<>>]
             e == IF HasKey(d, r.name) THEN d ELSE Append(d, entry)
             at == CHOOSE i \in DOMAIN e : e[i].name = r.name
         IN  LoadRows([e EXCEPT ![at].authors = Append(@, r.login)], Tail(rows))

\* sorted(crates)
RECURSIVE Insert(_, _)
Insert(sorted_names, x) ==
    IF sorted_names = <<>> THEN <<x>>
    ELSE IF StrLess(x, Head(sorted_names)) THEN <<x>> \o sorted_names
    ELSE <<Head(sorted_names)>> \o Insert(Tail(sorted_names), x)

RECURSIVE SortedNames(_)
SortedNames(names) ==
    IF names = <<>> THEN <<>>
    ELSE Insert(SortedNames(SubSeq(names, 1, Len(names) - 1)), names[Len(names)])

\* The order of the loop of main() over the crates.
LoopOrder_unsorted(d) == Keys(d)

LoopOrder(d) == SortedNames(Keys(d))

-----------------------------------------------------------------------------
(* The artifact download.  What the registry answers is the environment's  *)
(* choice: whether the crate has a version left, the status of the first   *)
(* response, whether it has a Location header, whether the file name in it *)
(* matches CRATE_FILE_REGEX, and the status of the second response.        *)

Responses ==
    [has_version : BOOLEAN, status1 : {302, 404}, location : BOOLEAN,
     crate_file_ok : BOOLEAN, status2 : {200, 500}]

\* download_latest(cur, package_name): the RuntimeError raised ("" when it
\* returns) and the value returned.
download_latest(package_name, resp) ==
    IF ~resp.has_version THEN [raised |-> "", value |-> None]
    ELSE IF resp.status1 # 302
    THEN [raised |-> "Unexpected HTTP response", value |-> None]
    ELSE IF ~resp.location
    THEN [raised |-> "Found 302 redirect without Location header", value |-> None]
    ELSE IF ~resp.crate_file_ok
    THEN [raised |-> "Invalid crate filename", value |-> None]
    ELSE IF resp.status2 # 200
    THEN [raised |-> "Unexpected HTTP response from location", value |-> None]
    ELSE [raised |-> "", value |-> "local_file"]
-----------------------------------------------------------------------------
(* The runs explored: the command lines and the registries.                *)

MaxTop == 2

\* --top is 1..MaxTop, --similarity-threshold its default 0.97, and
\* --lev-threshold 2.
ArgChoices ==
    [most_popular : 1..MaxTop,
     similarity_threshold : {DEFAULT_SIMILARITY_THRESHOLD},
     levenshtein_threshold : {2}]

rand == <<"r", "a", "n", "d">>
sand == <<"s", "a", "n", "d">>
rnad == <<"r", "n", "a", "d">>

\* The crates of the registry, by descending recent downloads.
Ranking == <<rand, sand, rnad>>

DescUniverse ==
    {NoDescription, <<>>, <<" ">>, <<"a", "b">>, <<"a", "c">>, <<"x", "y">>,
     <<"z", "z">>}

LoginChoices == {<<"A">>, <<"B">>}

Entries(i) ==
    [name : {Ranking[i]}, logins : LoginChoices, recent_versions : {1},
     description : DescUniverse, downloads : {100 * (Len(Ranking) + 1 - i)},
     homepage : {None}, repository : {None}, documentation : {None}]

Registries ==
    {<<e1>> : e1 \in Entries(1)}
    \cup {<<e1, e2>> : e1 \in Entries(1), e2 \in Entries(2)}
    \cup {<<e1, e2, e3>> : e1 \in Entries(1), e2 \in Entries(2), e3 \in Entries(3)}

\* A second registry, for the owner lists, the allowlist and the bitflip
\* index: rand and qand are both one bit from sand, r4nd and rsnd are
\* rand with a character of the TYPOS table in place of its a, and ranJ,
\* which may be second in place of qand, ends in the byte 0x4A, one bit
\* from the newline 0x0A.
qand == <<"q", "a", "n", "d">>
r4nd == <<"r", "4", "n", "d">>
rsnd == <<"r", "s", "n", "d">>
ranJ == <<"r", "a", "n", "J">>

CorpusRanking == <<rand, qand, r4nd, rsnd, sand>>

BlackHatRust == "https://github.com/skerkour/black-hat-rust"

Crate(i, logins, recent_versions, description, homepage, repository, documentation) ==
    [name |-> CorpusRanking[i], logins |-> logins,
     recent_versions |-> recent_versions, description |-> description,
     downloads |-> 100 * (Len(CorpusRanking) + 1 - i), homepage |-> homepage,
     repository |-> repository, documentation |-> documentation]

\* Owner rows that join to no user (None), several owners, and several
\* recent versions (each repeats the crate's owner rows).
CorpusEntries(i) ==
    IF i = 1 THEN
        {Crate(i, l, 1, d, None, None, None) :
            l \in {<<"A">>, <<None>>, <<"A", None>>}, d \in {<<>>, NoDescription}}
    ELSE IF i = 2 THEN
        {Crate(i, l, 1, <<>>, None, None, None) : l \in {<<"B">>, <<None>>}}
        \cup {[Crate(i, <<"B">>, 1, <<>>, None, None, None) EXCEPT !.name = ranJ]}
    ELSE IF i = 3 THEN
        {Crate(i, <<"B">>, 1, <<>>, None, None, None)}
    ELSE IF i = 4 THEN
        {Crate(i, <<"B">>, 1, <<>>, None, None, None),
         Crate(i, <<"B">>, 1, <<"z", "z">>, None, None, None),
         Crate(i, <<None>>, 1, <<>>, None, None, None),
         Crate(i, <<"B">>, 1, <<>>, None, BlackHatRust, None),
         Crate(i, <<"skerkour">>, 1, <<>>, None, None, None),
         Crate(i, <<"skerkour">>, 2, <<>>, None, BlackHatRust, None),
         Crate(i, <<"skerkour", "B">>, 1, <<>>, None, BlackHatRust, None)}
    ELSE
        {Crate(i, <<"A">>, 1, <<>>, None, None, None),
         Crate(i, <<"B">>, 2, <<>>, None, None, None),
         Crate(i, <<"blallo">>, 1, <<>>, "https://xkcd.com/386",
               "https://github.com/blallo/xkcd-386", "https://crates.io/policies"),
         Crate(i, <<"blallo">>, 1, <<>>, "https://xkcd.com/386", None, None)}

CorpusRegistries ==
    {<<e1>> : e1 \in CorpusEntries(1)}
    \cup {<<e1, e2, e3, e4, e5>> :
              e1 \in CorpusEntries(1), e2 \in CorpusEntries(2),
              e3 \in CorpusEntries(3), e4 \in CorpusEntries(4),
              e5 \in CorpusEntries(5)}

-----------------------------------------------------------------------------
(* The state machine of main().                                            *)

Init ==
    /\ pc = "start"
    /\ args \in ArgChoices
    /\ db \in Registries
    /\ crates = <<>>
    /\ popular_package_list = <<>>
    /\ popular_package_set = {}
    /\ popular_bitflips = <<>>
    /\ todo = <<>>
    /\ potential_typosquatting_found = 0
    /\ checked = <<>>
    /\ stdout = <<>>
    /\ summary = ""
    /\ download_log = <<>>
    /\ exit_status = -1

\* populate_crate_lists, lines 610 to 629, when the size is as asked for.
LoadPopular_unchecked ==
    LET loaded == LoadRows(<<>>, get_top_crates(args.most_popular)) IN
    /\ pc = "start"
    /\ crates' = loaded
    /\ popular_package_list' = Keys(loaded)
    /\ popular_package_set' = Range(Keys(loaded))
    /\ pc' = "popular_loaded"
    /\ UNCHANGED <<args, db, popular_bitflips, todo, potential_typosquatting_found,
                   checked, stdout, summary, download_log, exit_status>>

LoadPopular ==
    LET loaded == LoadRows(<<>>, get_top_crates(args.most_popular)) IN
    /\ pc = "start"
    /\ Cardinality(Range(Keys(loaded))) = args.most_popular
    /\ crates' = loaded
    /\ popular_package_list' = Keys(loaded)
    /\ popular_package_set' = Range(Keys(loaded))
    /\ pc' = "popular_loaded"
    /\ UNCHANGED <<args, db, popular_bitflips, todo, potential_typosquatting_found,
                   checked, stdout, summary, download_log, exit_status>>

\* populate_crate_lists, lines 610 to 629, when it is not: sys.exit(1).
PopularSizeMismatch ==
    LET loaded == LoadRows(<<>>, get_top_crates(args.most_popular)) IN
    /\ pc = "start"
    /\ Cardinality(Range(Keys(loaded))) # args.most_popular
    /\ crates' = loaded
    /\ popular_package_list' = Keys(loaded)
    /\ popular_package_set' = Range(Keys(loaded))
    /\ summary' = "Popular package set size mismatch"
    /\ exit_status' = 1
    /\ pc' = "exited"
    /\ UNCHANGED <<args, db, popular_bitflips, todo, potential_typosquatting_found,
                   checked, stdout, download_log>>

\* populate_crate_lists, lines 631 to 638.  popular_package_list is the
\* keys view of crates, so it shows the crates added here.
LoadCandidates ==
    /\ pc = "popular_loaded"
    /\ crates' = LoadRows(crates, get_crates_to_check(args.most_popular))
    /\ popular_package_list' = Keys(crates')
    /\ pc' = "candidates_loaded"
    /\ UNCHANGED <<args, db, popular_package_set, popular_bitflips, todo,
                   potential_typosquatting_found, checked, stdout, summary,
                   download_log, exit_status>>

\* generate_bitflips, called at line 641.
GenerateBitflips ==
    /\ pc = "candidates_loaded"
    /\ \E order \in Orders(popular_package_set) :
           popular_bitflips' = generate_bitflips(<<>>, order)
    /\ pc' = "loaded"
    /\ UNCHANGED <<args, db, crates, popular_package_list, popular_package_set,
                   todo, potential_typosquatting_found, checked, stdout, summary,
                   download_log, exit_status>>

\* main, lines 726 to 732: the loop starts over sorted(crates).
StartLoop ==
    /\ pc = "loaded"
    /\ todo' = LoopOrder(crates)
    /\ potential_typosquatting_found' = 0
    /\ pc' = "loop"
    /\ UNCHANGED <<args, db, crates, popular_package_list, popular_package_set,
                   popular_bitflips, checked, stdout, summary, download_log,
                   exit_status>>

\* What an iteration of the loop leaves in checked.
Checked(crate_name, found) ==
    Append(checked,
           [crate_name |-> crate_name, raised |-> found.raised, mode |-> found.mode,
            targets |-> found.targets, raw |-> found.raw,
            embedded |-> found.embedded, compared |-> found.compared,
            measured |-> found.measured])

\* An iteration of the loop for a crate with no targets: continue.
SkipCrate ==
    /\ pc = "loop"
    /\ todo # <<>>
    /\ LET crate_name == Head(todo)
           found == get_typosquatting_targets(crate_name)
       IN  /\ found.raised = ""
           /\ DOMAIN found.targets = {}
           /\ checked' = Checked(crate_name, found)
           /\ popular_bitflips' = found.index
    /\ todo' = Tail(todo)
    /\ UNCHANGED <<pc, args, db, crates, popular_package_list, popular_package_set,
                   potential_typosquatting_found, stdout,
                   summary, download_log, exit_status>>

\* An iteration in which filter_targets raises: nothing catches it, and the
\* interpreter ends the run with a traceback and status 1.
FilterRaises ==
    /\ pc = "loop"
    /\ todo # <<>>
    /\ LET crate_name == Head(todo)
           found == get_typosquatting_targets(crate_name)
       IN  /\ found.raised # ""
           /\ checked' = Checked(crate_name, found)
           /\ popular_bitflips' = found.index
           /\ summary' = found.raised
    /\ exit_status' = 1
    /\ pc' = "traceback"
    /\ UNCHANGED <<args, db, crates, popular_package_list, popular_package_set,
                   todo, potential_typosquatting_found, stdout,
                   download_log>>

\* The iteration without line 741, potential_typosquatting_found += 1.
AlertCrate_uncounted ==
    /\ pc = "loop"
    /\ todo # <<>>
    /\ LET crate_name == Head(todo)
           found == get_typosquatting_targets(crate_name)
       IN  /\ found.raised = ""
           /\ DOMAIN found.targets # {}
           /\ checked' = Checked(crate_name, found)
           /\ popular_bitflips' = found.index
           /\ \E resp \in Responses :
                LET got == download_latest(crate_name, resp)
                    localfile == IF got.value = None THEN "no versions available"
                                 ELSE got.value
                IN  /\ got.raised = ""
                    /\ download_log' = Append(download_log,
                           [crate_name |-> crate_name, raised |-> got.raised])
                    /\ stdout' = Append(stdout,
                           [crate_name |-> crate_name, localfile |-> localfile,
                            downloads |-> Get(crates, crate_name).downloads,
                            targets |-> found.targets])
    /\ todo' = Tail(todo)
    /\ UNCHANGED <<pc, args, db, crates, popular_package_list, popular_package_set,
                   potential_typosquatting_found, summary, exit_status>>

\* An iteration for a crate with targets, when download_latest returns: the
\* WARNING line is printed.
AlertCrate ==
    /\ pc = "loop"
    /\ todo # <<>>
    /\ LET crate_name == Head(todo)
           found == get_typosquatting_targets(crate_name)
       IN  /\ found.raised = ""
           /\ DOMAIN found.targets # {}
           /\ checked' = Checked(crate_name, found)
           /\ popular_bitflips' = found.index
           /\ \E resp \in Responses :
                LET got == download_latest(crate_name, resp)
                    localfile == IF got.value = None THEN "no versions available"
                                 ELSE got.value
                IN  /\ got.raised = ""
                    /\ download_log' = Append(download_log,
                           [crate_name |-> crate_name, raised |-> got.raised])
                    /\ stdout' = Append(stdout,
                           [crate_name |-> crate_name, localfile |-> localfile,
                            downloads |-> Get(crates, crate_name).downloads,
                            targets |-> found.targets])
    /\ potential_typosquatting_found' = potential_typosquatting_found + 1
    /\ todo' = Tail(todo)
    /\ UNCHANGED <<pc, args, db, crates, popular_package_list, popular_package_set,
                   summary, exit_status>>

\* An iteration for a crate with targets, when download_latest raises its
\* RuntimeError: nothing catches it either.
DownloadRaises ==
    /\ pc = "loop"
    /\ todo # <<>>
    /\ LET crate_name == Head(todo)
           found == get_typosquatting_targets(crate_name)
       IN  /\ found.raised = ""
           /\ DOMAIN found.targets # {}
           /\ checked' = Checked(crate_name, found)
           /\ popular_bitflips' = found.index
           /\ \E resp \in Responses :
                LET got == download_latest(crate_name, resp)
                IN  /\ got.raised # ""
                    /\ download_log' = Append(download_log,
                           [crate_name |-> crate_name, raised |-> got.raised])
    /\ summary' = "RuntimeError"
    /\ potential_typosquatting_found' = potential_typosquatting_found + 1
    /\ exit_status' = 1
    /\ pc' = "traceback"
    /\ UNCHANGED <<args, db, crates, popular_package_list, popular_package_set,
                   todo, stdout>>

\* main, lines 750 to 754, after the loop.
Finish_without_exit ==
    /\ pc = "loop"
    /\ todo = <<>>
    /\ IF potential_typosquatting_found > 0
       THEN summary' = "potential typosquatting crates detected" /\ exit_status' = 0
       ELSE summary' = "no typosquatting detected" /\ exit_status' = 0
    /\ pc' = "done"
    /\ UNCHANGED <<args, db, crates, popular_package_list, popular_package_set,
                   popular_bitflips, todo, potential_typosquatting_found, checked,
                   stdout, download_log>>

Finish ==
    /\ pc = "loop"
    /\ todo = <<>>
    /\ IF potential_typosquatting_found > 0
       THEN summary' = "potential typosquatting crates detected" /\ exit_status' = 42
       ELSE summary' = "no typosquatting detected" /\ exit_status' = 0
    /\ pc' = "done"
    /\ UNCHANGED <<args, db, crates, popular_package_list, popular_package_set,
                   popular_bitflips, todo, potential_typosquatting_found, checked,
                   stdout, download_log>>

Next ==
    \/ LoadPopular
    \/ PopularSizeMismatch
    \/ LoadCandidates
    \/ GenerateBitflips
    \/ StartLoop
    \/ SkipCrate
    \/ FilterRaises
    \/ AlertCrate
    \/ DownloadRaises
    \/ Finish

Spec == Init /\ [][Next]_vars

\* The same program on the second registry.
CorpusInit ==
    /\ pc = "start"
    /\ args \in ArgChoices
    /\ db \in CorpusRegistries
    /\ crates = <<>>
    /\ popular_package_list = <<>>
    /\ popular_package_set = {}
    /\ popular_bitflips = <<>>
    /\ todo = <<>>
    /\ potential_typosquatting_found = 0
    /\ checked = <<>>
    /\ stdout = <<>>
    /\ summary = ""
    /\ download_log = <<>>
    /\ exit_status = -1

CorpusSpec == CorpusInit /\ [][Next]_vars


-----------------------------------------------------------------------------
(* The mutators on their own.  A state of this specification is a state    *)
(* the program is in when populate_crate_lists has returned; an action is  *)
(* one call of a mutator on a crate of the corpus, and checked holds the   *)
(* last call and what it returned.                                         *)

pand == <<"p", "a", "n", "d">>
dand == <<"d", "a", "n", "d">>
and3 == <<"a", "n", "d">>
raand == <<"r", "a", "a", "n", "d">>
react == <<"r", "e", "a", "c", "t">>
react_0 == <<"r", "e", "a", "c", "t", "-", "0">>
react_02 == <<"r", "e", "a", "c", "t", "-", "0", "2">>
react2 == <<"r", "e", "a", "c", "t", "2">>
react_2 == <<"r", "e", "a", "c", "t", "_", "2">>
reat == <<"r", "e", "a", "t">>
reac == <<"r", "e", "a", "c">>
rea == <<"r", "e", "a">>
re4ct == <<"r", "e", "4", "c", "t">>
event_stream == <<"e", "v", "e", "n", "t", "-", "s", "t", "r", "e", "a", "m">>
stream_event == <<"s", "t", "r", "e", "a", "m", "-", "e", "v", "e", "n", "t">>
eventstream == <<"e", "v", "e", "n", "t", "s", "t", "r", "e", "a", "m">>
c_b_a == <<"c", "_", "b", "_", "a">>
a_b_c == <<"a", "-", "b", "-", "c">>
nine_tokens == <<"a", "-", "b", "-", "c", "-", "d", "-", "e", "-", "f", "-", "g", "-", "h", "-", "i">>
nine_swapped == <<"b", "-", "a", "-", "c", "-", "d", "-", "e", "-", "f", "-", "g", "-", "h", "-", "i">>

\* A registry: the popular crates, all owned by A, in descending order of
\* recent downloads, then the others, all owned by `owner`.
Registry(popular, others, owner) ==
    LET all == popular \o others IN
    [i \in DOMAIN all |->
        [name |-> all[i],
         logins |-> IF i <= Len(popular) THEN <<"A">> ELSE <<owner>>,
         recent_versions |-> 1, description |-> NoDescription,
         downloads |-> 100 * (Len(all) + 1 - i),
         homepage |-> None, repository |-> None, documentation |-> None]]

\* --top and the registry of each world.
MutatorWorlds ==
    UNION {
        {[top |-> Len(w.popular), registry |-> Registry(w.popular, w.others, owner)] :
            owner \in {"A", "B"}} :
        w \in {[popular |-> <<sand, qand, rand>>,
                others |-> <<pand, dand, and3, raand, rnad>>],
               [popular |-> <<react, react_0, reac>>,
                others |-> <<react_02, react2, react_2, reat, re4ct, rea>>],
               [popular |-> <<event_stream, nine_swapped, c_b_a>>,
                others |-> <<stream_event, eventstream, a_b_c, nine_tokens>>]}}

MutatorInit ==
    /\ pc = "loaded"
    /\ \E w \in MutatorWorlds :
           /\ db = w.registry
           /\ args = [most_popular |-> w.top,
                      similarity_threshold |-> DEFAULT_SIMILARITY_THRESHOLD,
                      levenshtein_threshold |-> 2]
    /\ crates = LoadRows(LoadRows(<<>>, get_top_crates(args.most_popular)),
                         get_crates_to_check(args.most_popular))
    /\ popular_package_list = Keys(crates)
    /\ popular_package_set
           = Range(Keys(LoadRows(<<>>, get_top_crates(args.most_popular))))
    /\ \E order \in Orders(popular_package_set) :
           popular_bitflips = generate_bitflips(<<>>, order)
    /\ todo = <<>>
    /\ potential_typosquatting_found = 0
    /\ checked = <<>>
    /\ stdout = <<>>
    /\ summary = ""
    /\ download_log = <<>>
    /\ exit_status = -1

\* How a call passes return_all: not at all, as True or as False.
ReturnAllChoices == {"default", "True", "False"}

\* A call of one of the five mutators declared with return_all: bool=True.
Returned(mutator, package_name, return_all, result) ==
    /\ checked' = <<[mutator |-> mutator, crate_name |-> package_name,
                     return_all |-> return_all, raised |-> "",
                     result |-> result]>>
    /\ UNCHANGED <<pc, args, db, crates, popular_package_list, popular_package_set,
                   popular_bitflips, todo, potential_typosquatting_found, stdout,
                   summary, download_log, exit_status>>

\* A call of version_numbers or bitflips, declared with package_name only:
\* a call that passes return_all raises TypeError.
ReturnedWithoutFlag(mutator, package_name, return_all, result) ==
    /\ checked' = <<[mutator |-> mutator, crate_name |-> package_name,
                     return_all |-> return_all,
                     raised |-> IF return_all = "default" THEN "" ELSE "TypeError",
                     result |-> IF return_all = "default" THEN result ELSE <<>>]>>
    /\ UNCHANGED <<pc, args, db, crates, popular_package_list, popular_package_set,
                   popular_bitflips, todo, potential_typosquatting_found, stdout,
                   summary, download_log, exit_status>>

Call_repeated_characters ==
    /\ pc = "loaded"
    /\ \E c \in Range(Keys(crates)), ra \in ReturnAllChoices :
           Returned("repeated_characters", c, ra, repeated_characters(c, ra # "False"))

Call_omitted_chars ==
    /\ pc = "loaded"
    /\ \E c \in Range(Keys(crates)), ra \in ReturnAllChoices :
           Returned("omitted_chars", c, ra, omitted_chars(c, ra # "False"))

Call_swapped_characters ==
    /\ pc = "loaded"
    /\ \E c \in Range(Keys(crates)), ra \in ReturnAllChoices :
           Returned("swapped_characters", c, ra, swapped_characters(c, ra # "False"))

Call_swapped_words ==
    /\ pc = "loaded"
    /\ \E c \in Range(Keys(crates)), ra \in ReturnAllChoices :
           Returned("swapped_words", c, ra, swapped_words(c, ra # "False"))

Call_common_typos ==
    /\ pc = "loaded"
    /\ \E c \in Range(Keys(crates)), ra \in ReturnAllChoices :
           Returned("common_typos", c, ra, common_typos(c, ra # "False"))

Call_version_numbers ==
    /\ pc = "loaded"
    /\ \E c \in Range(Keys(crates)), ra \in ReturnAllChoices :
           ReturnedWithoutFlag("version_numbers", c, ra, version_numbers(c))

Call_bitflips ==
    /\ pc = "loaded"
    /\ \E c \in Range(Keys(crates)), ra \in ReturnAllChoices :
           ReturnedWithoutFlag("bitflips", c, ra, bitflips(c))

MutatorNext ==
    \/ Call_repeated_characters
    \/ Call_omitted_chars
    \/ Call_swapped_characters
    \/ Call_swapped_words
    \/ Call_common_typos
    \/ Call_version_numbers
    \/ Call_bitflips

MutatorSpec == MutatorInit /\ [][MutatorNext]_vars

-----------------------------------------------------------------------------
(* Properties.                                                             *)

Owners(c) == Range(Get(crates, c).authors)

\* A description that is absent, empty or whitespace only.
Blank(d) == d = NoDescription \/ \A i \in DOMAIN d : d[i] = " "

Alerted == {stdout[i].crate_name : i \in DOMAIN stdout}

\* C1: every target of every alert emitted is in popular_set, differs from
\* the candidate and shares no owner identifier with the candidate,
\* whichever mutator produced it.
C1_EmittedTargetsAdmissible ==
    \A i \in DOMAIN stdout : \A t \in DOMAIN stdout[i].targets :
        /\ t \in popular_package_set
        /\ t # stdout[i].crate_name
        /\ Owners(stdout[i].crate_name) \cap Owners(t) = {}

\* C2: no name of popular_set is reported: get_typosquatting_targets gives
\* nothing for it, the loop found nothing for it, and no alert names it.
C2_PopularNeverSuspect ==
    /\ \A i \in DOMAIN stdout : stdout[i].crate_name \notin popular_package_set
    /\ \A i \in DOMAIN checked :
           checked[i].crate_name \in popular_package_set
               => checked[i].raised = "" /\ DOMAIN checked[i].targets = {}
    /\ pc = "loop" =>
           \A c \in popular_package_set :
               DOMAIN get_typosquatting_targets(c).targets = {}

\* C2 witness: the loop has passed a popular crate whose name is a mutation
\* of another popular crate, of another owner and with a like description.
C2_Witness ==
    \E i \in DOMAIN checked :
        LET c == checked[i].crate_name IN
        /\ c \in popular_package_set
        /\ DOMAIN filter_targets(c, Range(RawTargets(c))).targets # {}

\* C3: the alerts are emitted in strictly ascending order of candidate name.
C3_AlertsAscending ==
    \A i, j \in DOMAIN stdout :
        i < j => StrLess(stdout[i].crate_name, stdout[j].crate_name)

\* C3 witness: two alerts, for crates that the dict holds in the other order.
C3_Witness ==
    /\ Len(stdout) >= 2
    /\ \E k, l \in DOMAIN crates :
           k < l /\ crates[k].name = stdout[2].crate_name
                 /\ crates[l].name = stdout[1].crate_name

\* C4: a download that fails for an alerting candidate neither suppresses
\* its alert nor aborts the run: the alert is emitted with a placeholder
\* file reference and the loop goes on.
C4_DownloadFailureKeepsAlert ==
    \A i \in DOMAIN download_log :
        download_log[i].raised # "" =>
            /\ pc # "traceback"
            /\ \E k \in DOMAIN stdout :
                   /\ stdout[k].crate_name = download_log[i].crate_name
                   /\ stdout[k].localfile = "no versions available"

\* The entries of checked in semantic mode that returned.
SemanticChecked ==
    {i \in DOMAIN checked : checked[i].mode = "semantic" /\ checked[i].raised = ""}

\* C5, as claimed: in semantic mode a target with a text is retained iff
\* its similarity is greater than or equal to similarity_threshold, with the
\* similarity as score.
C5_RetainedIffAtLeastThreshold ==
    \A i \in SemanticChecked : \A t \in checked[i].raw :
        ~Blank(Description(t)) =>
            LET sim == similarity(Description(checked[i].crate_name), Description(t)) IN
            /\ t \in DOMAIN checked[i].targets <=> sim >= args.similarity_threshold
            /\ t \in DOMAIN checked[i].targets => checked[i].targets[t] = sim

\* C5, amended: in semantic mode (description of the candidate not blank,
\* its norm not zero) a target with a text is retained iff its similarity is
\* strictly greater than similarity_threshold, with the similarity as score;
\* a target whose similarity equals the threshold is dropped.
C5_RetainedIffAboveThreshold ==
    /\ \A i \in DOMAIN checked :
           LET d == Description(checked[i].crate_name) IN
           (checked[i].mode \notin {"popular", "allowlisted"}
               /\ ~Blank(d) /\ vector_norm(d) # 0)
               => checked[i].mode = "semantic"
    /\ \A i \in SemanticChecked : \A t \in checked[i].raw :
           ~Blank(Description(t)) =>
               LET sim == similarity(Description(checked[i].crate_name), Description(t)) IN
               /\ t \in DOMAIN checked[i].targets <=> sim > args.similarity_threshold
               /\ t \in DOMAIN checked[i].targets => checked[i].targets[t] = sim

\* C5 witness: a target whose similarity equals the threshold was judged in
\* semantic mode.
C5_Witness ==
    \E i \in SemanticChecked : \E t \in checked[i].raw :
        /\ ~Blank(Description(t))
        /\ similarity(Description(checked[i].crate_name), Description(t))
               = args.similarity_threshold

\* The entries of checked for a crate that is not popular and whose
\* description is blank.
BlankChecked ==
    {i \in DOMAIN checked :
        /\ checked[i].crate_name \notin popular_package_set
        /\ Blank(Description(checked[i].crate_name))}

\* C6: when the description of the candidate is absent, empty or whitespace
\* only, the filter returns exactly the raw targets whose description is
\* absent, empty or whitespace only, each with the score 100, and consults
\* neither the embedding model nor the edit distance.
C6_BlankCandidateKeepsBlankTargets ==
    \A i \in BlankChecked :
        /\ checked[i].raised = ""
        /\ DOMAIN checked[i].targets
               = {t \in checked[i].raw : Blank(Description(t))}
        /\ \A t \in DOMAIN checked[i].targets : checked[i].targets[t] = 100
        /\ checked[i].embedded = {}
        /\ checked[i].compared = {}
        /\ checked[i].measured = {}

\* C6 witness: a candidate with a whitespace-only description kept a target
\* with a whitespace-only or empty description.
C6_Witness ==
    \E i \in BlankChecked : \E t \in DOMAIN checked[i].targets :
        /\ Description(checked[i].crate_name) = <<" ">>
        /\ Description(t) \in {<<>>, <<" ">>}

\* The entries of checked for a candidate with a text.
TextChecked ==
    {i \in DOMAIN checked :
        /\ checked[i].mode \notin {"popular", "allowlisted"}
        /\ ~Blank(Description(checked[i].crate_name))}

C8_UnembeddableTargetAborts ==
    \A i \in TextChecked :
        LET c == checked[i].crate_name IN
        (/\ vector_norm(Description(c)) # 0
         /\ \E t \in checked[i].raw :
                ~Blank(Description(t)) /\ vector_norm(Description(t)) = 0)
        => /\ checked[i].raised = "ValueError"
           /\ i = Len(checked)
           /\ pc = "traceback"
           /\ c \notin Alerted
           /\ todo # <<>> /\ Head(todo) = c
           /\ summary \notin {"potential typosquatting crates detected",
                              "no typosquatting detected"}
           /\ exit_status \notin {0, 42}

\* C8 witness: the filter raised ValueError while a later candidate waited.
C8_Witness ==
    /\ pc = "traceback"
    /\ checked[Len(checked)].raised = "ValueError"
    /\ \E k \in 2..Len(todo) : todo[k] \notin popular_package_set

\* The number of distinct names that get_top_crates returns.
TopNames ==
    Cardinality({db[i].name : i \in {j \in DOMAIN db : j <= args.most_popular}})

\* C9: when the number of distinct popular names is not --top, the run ends
\* with a status that is not zero, and the candidate rows are not loaded,
\* the bitflip index is not built, no crate is checked and no alert emitted.
C9_SizeMismatchExitsBeforeAnything ==
    (TopNames # args.most_popular /\ pc # "start") =>
        /\ pc = "exited"
        /\ exit_status = 1
        /\ Len(crates) = TopNames
        /\ popular_bitflips = <<>>
        /\ todo = <<>>
        /\ checked = <<>>
        /\ stdout = <<>>
        /\ download_log = <<>>

\* C9 witness: a run that ended on the size mismatch.
C9_Witness ==
    /\ TopNames # args.most_popular
    /\ pc = "exited"

\* C10: on a run whose loop completes, the exit status is 42 iff an alert
\* was emitted and 0 iff none was.
C10_ExitStatusTellsAlerts ==
    pc = "done" =>
        /\ todo = <<>>
        /\ exit_status = 42 <=> Len(stdout) >= 1
        /\ exit_status = 0 <=> Len(stdout) = 0

\* C10 witness: a run that completed with alerts.
C10_Witness ==
    /\ pc = "done"
    /\ Len(stdout) >= 1

\* C20: once loading and the construction of the bitflip index are over, no
\* step changes crates, popular_package_list, popular_package_set or
\* popular_bitflips: the += of line 489 extends the list made at line 480
\* and leaves the index's list, its right operand, as it was.
C20_LoopLeavesTablesAlone ==
    [][(pc \in {"loaded", "loop"}) =>
           (UNCHANGED <<db, crates, popular_package_list, popular_package_set,
                        popular_bitflips>>)]_vars

\* C20 witness: the loop went over a crate that is a key of the index, so
\* the index's own list was the right operand of line 489.
C20_Witness ==
    \E i \in 1..Len(checked) :
        /\ checked[i].crate_name \in DOMAIN popular_bitflips
        /\ checked[i].mode \notin {"popular", "allowlisted"}
        /\ Range(popular_bitflips[checked[i].crate_name]) \subseteq checked[i].raw

\* C18: once the popular and the candidate rows are both loaded,
\* popular_package_list holds the N popular names and nothing else, and
\* popular_package_set is the set of its names.
C18_PopularListIsThePopularNames ==
    pc \in {"candidates_loaded", "loaded", "loop", "done", "traceback"} =>
        /\ Len(popular_package_list) = args.most_popular
        /\ Range(popular_package_list) = popular_package_set

\* The crate the i-th iteration of the loop went over is `name`, owned by B
\* with the description "", and the popular crates are rand alone, owned by
\* A with the description "".
RandScenario(i, name) ==
    /\ checked[i].crate_name = name
    /\ popular_package_set = {rand}
    /\ Get(crates, rand).authors = <<"A">>
    /\ Description(rand) = <<>>
    /\ Get(crates, name).authors = <<"B">>
    /\ Description(name) = <<>>

OneBitApart(m, p) ==
    /\ Len(m) = Len(p)
    /\ \E i \in DOMAIN p :
           /\ \A j \in DOMAIN p \ {i} : m[j] = p[j]
           /\ \E b \in 0..7 :
                  LET lo == IF Ord(m[i]) < Ord(p[i]) THEN Ord(m[i]) ELSE Ord(p[i])
                      hi == IF Ord(m[i]) < Ord(p[i]) THEN Ord(p[i]) ELSE Ord(m[i])
                  IN  /\ hi - lo = 2 ^ b
                      /\ (lo \div (2 ^ b)) % 2 = 0

\* C14: once the bitflip index is built, every key m is a valid package
\* name (not empty, characters of [A-Za-z0-9_-] only), and the list under m
\* is not empty, repeats no name and holds exactly the popular names that m
\* is one inverted bit away from, none of them m itself.
C14_IndexKeysValidAndExact ==
    pc \in {"loaded", "loop", "done", "traceback"} =>
        \A m \in DOMAIN popular_bitflips :
            /\ m # <<>>
            /\ \A i \in DOMAIN m : m[i] \in NameCharacters
            /\ popular_bitflips[m] # <<>>
            /\ Len(popular_bitflips[m]) = Cardinality(Range(popular_bitflips[m]))
            /\ Range(popular_bitflips[m])
                   = {p \in popular_package_set : OneBitApart(m, p)}
            /\ m \notin Range(popular_bitflips[m])

\* The registry's entry of a crate.
Registered(name) == db[CHOOSE k \in DOMAIN db : db[k].name = name]

\* The owner set and the URL fields of a registry entry are those of one
\* of the two allowlist entries.
OnAllowlist(e) ==
    \/ /\ Range(e.logins) = {"blallo"}
       /\ e.homepage = "https://xkcd.com/386"
       /\ e.documentation = "https://crates.io/policies"
       /\ e.repository = "https://github.com/blallo/xkcd-386"
    \/ /\ Range(e.logins) = {"skerkour"}
       /\ e.repository = "https://github.com/skerkour/black-hat-rust"

\* C17: a candidate is allowlisted exactly when the owner set and the URL
\* fields of its registry entry are those of an allowlist entry; an
\* allowlisted candidate has no target, no alert and no download, and
\* neither a mutator nor the filter has run for it.
C17_AllowlistedExactlyOnMatch ==
    \A i \in DOMAIN checked :
        checked[i].crate_name \notin popular_package_set =>
            /\ checked[i].mode = "allowlisted"
                   <=> OnAllowlist(Registered(checked[i].crate_name))
            /\ checked[i].mode = "allowlisted" =>
                   /\ checked[i].raised = ""
                   /\ DOMAIN checked[i].targets = {}
                   /\ checked[i].raw = {}
                   /\ checked[i].embedded = {}
                   /\ checked[i].compared = {}
                   /\ checked[i].measured = {}
                   /\ checked[i].crate_name \notin Alerted
                   /\ \A k \in DOMAIN download_log :
                          download_log[k].crate_name # checked[i].crate_name

\* C17 witness: an allowlisted candidate that common_typos turns into a
\* popular crate of another owner, and a candidate with the owner of an
\* allowlist entry but not its URL that was not allowlisted.
C17_Witness ==
    /\ \E i \in DOMAIN checked :
           /\ checked[i].mode = "allowlisted"
           /\ Range(common_typos(checked[i].crate_name, TRUE)) # {}
    /\ \E i \in DOMAIN checked :
           /\ checked[i].mode = "blank"
           /\ Owners(checked[i].crate_name) = {"blallo"}

\* The distinct elements of a list other than None, in the order of their
\* first appearance.
RECURSIVE DistinctOwners(_)
DistinctOwners(logins) ==
    IF logins = <<>> THEN <<>>
    ELSE LET front == DistinctOwners(SubSeq(logins, 1, Len(logins) - 1))
             last == logins[Len(logins)]
         IN  IF last = None \/ last \in Range(front) THEN front
             ELSE Append(front, last)

\* C19: after loading, the owner list of each crate holds exactly the
\* distinct owner identifiers of its rows that are not null, in the order
\* of their first appearance; so two crates whose rows all have a null
\* owner are not taken to share an owner.
C19_OwnerListsDistinctNonNull ==
    pc \in {"candidates_loaded", "loaded", "loop", "done", "traceback"} =>
        /\ \A k \in DOMAIN crates :
               crates[k].authors = DistinctOwners(Registered(crates[k].name).logins)
        /\ \A k1, k2 \in DOMAIN crates :
               (/\ k1 # k2
                /\ Range(Registered(crates[k1].name).logins) = {None}
                /\ Range(Registered(crates[k2].name).logins) = {None})
                   => ~same_author(crates[k1].name, crates[k2].name)

\* s is an admissible target of the crate c: popular, not c, and with no
\* owner of c among its owners.
Admissible(c, s) ==
    /\ s \in popular_package_set
    /\ s # c
    /\ Owners(c) \cap Owners(s) = {}

\* The calls recorded of a mutator, passing return_all as in `flags`.
Calls(mutator, flags) ==
    {i \in DOMAIN checked :
        checked[i].mutator = mutator /\ checked[i].return_all \in flags}

\* c without its trailing digits, all of them.
WithoutDigits(c) ==
    LET ends == {k \in 0..Len(c) : \A j \in (k + 1)..Len(c) : c[j] \in Range(Digits)}
    IN  SubSeq(c, 1, CHOOSE k \in ends : \A l \in ends : k <= l)

\* c without its trailing digits and without the one delimiter, if any,
\* that comes just before them.
WithoutVersion(c) ==
    LET stem == WithoutDigits(c) IN
    IF stem # <<>> /\ stem[Len(stem)] \in {"-", "_"}
    THEN SubSeq(stem, 1, Len(stem) - 1)
    ELSE stem

\* C12: version_numbers tests one name, the candidate without its whole
\* run of trailing digits and without one delimiter just before them; it
\* returns that name iff it is admissible, and nothing when the candidate
\* does not end in a digit.
C12_VersionNumbersTestsTheStem ==
    \A i \in Calls("version_numbers", {"default"}) :
        LET c == checked[i].crate_name IN
        /\ checked[i].raised = ""
        /\ checked[i].result =
               IF c[Len(c)] \in Range(Digits) /\ Admissible(c, WithoutVersion(c))
               THEN <<WithoutVersion(c)>>
               ELSE <<>>

\* C12 witness: react-02 returned react, though react-0 is popular and
\* admissible too.
C12_Witness ==
    \E i \in Calls("version_numbers", {"default"}) :
        /\ checked[i].crate_name = react_02
        /\ checked[i].result = <<react>>
        /\ Admissible(react_02, react_0)

\* The mutators declared with return_all.
WithReturnAll ==
    {"repeated_characters", "omitted_chars", "swapped_characters",
     "swapped_words", "common_typos"}

\* Everything a mutator finds for the crate c.
Found(mutator, c) ==
    CASE mutator = "repeated_characters" -> repeated_characters(c, TRUE)
      [] mutator = "omitted_chars" -> omitted_chars(c, TRUE)
      [] mutator = "swapped_characters" -> swapped_characters(c, TRUE)
      [] mutator = "swapped_words" -> swapped_words(c, TRUE)
      [] mutator = "common_typos" -> common_typos(c, TRUE)
      [] mutator = "version_numbers" -> version_numbers(c)
      [] mutator = "bitflips" -> bitflips(c)

\* The package of a list that comes first in popular_package_list.
Earliest(packages) ==
    popular_package_list[
        CHOOSE k \in DOMAIN popular_package_list :
            /\ popular_package_list[k] \in Range(packages)
            /\ \A l \in DOMAIN popular_package_list :
                   popular_package_list[l] \in Range(packages) => k <= l]

\* C13 as stated: each of the seven mutators, called with return_all=False
\* on a crate it finds a target for, returns one target, the one found that
\* comes first in popular_package_list; called with return_all=True, or
\* finding nothing, it returns all it found.
C13_SevenCollapse ==
    \A i \in DOMAIN checked :
        LET found == Found(checked[i].mutator, checked[i].crate_name) IN
        /\ checked[i].raised = ""
        /\ (checked[i].return_all = "False" /\ found # <<>>) =>
               checked[i].result = <<Earliest(found)>>
        /\ (checked[i].return_all = "True" \/ found = <<>>) =>
               checked[i].result = found

\* C13 amended: that holds of the five mutators declared with return_all
\* (whose default is True); version_numbers and bitflips take the package
\* name only, a call that passes return_all raises TypeError, and they
\* return all they found.
C13_FiveCollapse ==
    \A i \in DOMAIN checked :
        LET found == Found(checked[i].mutator, checked[i].crate_name) IN
        IF checked[i].mutator \in WithReturnAll
        THEN /\ checked[i].raised = ""
             /\ (checked[i].return_all = "False" /\ found # <<>>) =>
                    checked[i].result = <<Earliest(found)>>
             /\ (checked[i].return_all \in {"True", "default"} \/ found = <<>>) =>
                    checked[i].result = found
        ELSE /\ checked[i].return_all = "default" =>
                    checked[i].raised = "" /\ checked[i].result = found
             /\ checked[i].return_all # "default" =>
                    checked[i].raised = "TypeError"

\* C13 witness: a call with return_all=False that found two targets and
\* returned the second found, the first in popular_package_list.
C13_Witness ==
    \E i \in DOMAIN checked :
        /\ checked[i].mutator \in WithReturnAll
        /\ checked[i].return_all = "False"
        /\ Len(Found(checked[i].mutator, checked[i].crate_name)) >= 2
        /\ Found(checked[i].mutator, checked[i].crate_name)[1] # checked[i].result[1]

Delimiter == {"-", "_"}

\* The words of a name: its maximal runs of characters that are no
\* delimiter, from left to right.
Words(c) ==
    LET starts == {i \in DOMAIN c :
                      c[i] \notin Delimiter /\ (i = 1 \/ c[i - 1] \in Delimiter)}
        last(i) == CHOOSE j \in i..Len(c) :
                       /\ \A k \in i..j : c[k] \notin Delimiter
                       /\ j = Len(c) \/ c[j + 1] \in Delimiter
    IN  [n \in 1..Cardinality(starts) |->
            LET i == CHOOSE s \in starts :
                         Cardinality({r \in starts : r < s}) = n - 1
            IN  SubSeq(c, i, last(i))]

\* The words ws in the order pi, with d between them.
Joined(d, ws, pi) ==
    Flatten([k \in DOMAIN ws |-> IF k = 1 THEN ws[pi[k]] ELSE d \o ws[pi[k]]])

\* The names d.join(p), for d a delimiter or nothing and p the words of c
\* in any order.
Reorderings(c) ==
    LET ws == Words(c)
        n == Len(ws)
    IN  {Joined(d, ws, pi) :
            d \in {<<>>, <<"-">>, <<"_">>},
            pi \in {f \in [1..n -> 1..n] : \A a, b \in 1..n : f[a] = f[b] => a = b}}

\* C15: swapped_words returns nothing for a name without delimiter and for
\* a name of more than 8 words; for any other name it returns exactly the
\* admissible names among its reorderings.
C15_SwappedWordsReorders ==
    \A i \in Calls("swapped_words", {"default", "True"}) :
        LET c == checked[i].crate_name IN
        IF (\A k \in DOMAIN c : c[k] \notin Delimiter) \/ Len(Words(c)) > 8
        THEN checked[i].result = <<>>
        ELSE Range(checked[i].result)
                 = {s \in Reorderings(c) : Admissible(c, s)}

\* C15 witness: stream-event returned event-stream, where the name of nine
\* words has a popular, admissible name made of the same words.
C15_Witness ==
    \E i \in Calls("swapped_words", {"default", "True"}) :
        /\ checked[i].crate_name = stream_event
        /\ checked[i].result = <<event_stream>>
        /\ Len(Words(nine_tokens)) = 9
        /\ Admissible(nine_tokens, nine_swapped)
        /\ swapped_words(nine_tokens, TRUE) = <<>>

\* c with one character of [A-Za-z0-9_-] inserted somewhere gives s.
OneInserted(c, s) ==
    /\ Len(s) = Len(c) + 1
    /\ \E i \in DOMAIN s :
           /\ s[i] \in NameCharacters
           /\ SubSeq(s, 1, i - 1) \o SubSeq(s, i + 1, Len(s)) = c

\* C16: omitted_chars returns nothing for a name of fewer than 4
\* characters, whatever is popular; for a longer name it returns exactly
\* the admissible names that are the name with one allowed character
\* inserted, at any place from before the first to after the last.
C16_OmittedCharsInsertsOne ==
    \A i \in Calls("omitted_chars", {"default", "True"}) :
        LET c == checked[i].crate_name IN
        IF Len(c) < 4
        THEN checked[i].result = <<>>
        ELSE Range(checked[i].result)
                 = {s \in popular_package_set : OneInserted(c, s) /\ Admissible(c, s)}

\* C16 witness: rea, of 3 characters, returned nothing though the popular
\* reac is rea with a character added and admissible, where reat, of 4,
\* gives react.
C16_Witness ==
    \E i \in Calls("omitted_chars", {"default", "True"}) :
        /\ checked[i].crate_name = rea
        /\ checked[i].result = <<>>
        /\ OneInserted(rea, reac) /\ Admissible(rea, reac)
        /\ omitted_chars(reat, TRUE) = <<react>>

\* The number of entries of a list that are about the crate `name`.
Count(list, name) == Cardinality({i \in DOMAIN list : list[i].crate_name = name})

\* C21: when the loop has completed, every crate of the corpus has been
\* checked once; there is one alert, with the filtered map, for each crate
\* whose filtered map is not empty and none for any other; the download
\* was requested once for each of those and for no other; and the count
\* that the summary prints (potential_typosquatting_found, line 751) is
\* the number of alerts printed.
C21_CompletedRunAlertsEachSuspectOnce ==
    pc = "done" =>
        /\ \A k \in DOMAIN crates : Count(checked, crates[k].name) = 1
        /\ \A i \in DOMAIN checked :
               LET name == checked[i].crate_name
                   suspect == IF DOMAIN checked[i].targets # {} THEN 1 ELSE 0
               IN  /\ HasKey(crates, name)
                   /\ Count(stdout, name) = suspect
                   /\ Count(download_log, name) = suspect
                   /\ \A j \in DOMAIN stdout :
                          stdout[j].crate_name = name =>
                              stdout[j].targets = checked[i].targets
        /\ potential_typosquatting_found = Len(stdout)
        /\ summary = "potential typosquatting crates detected" <=> Len(stdout) > 0

\* C21 witness: a completed run over three crates that alerted two of them
\* and passed over the third.
C21_Witness ==
    /\ pc = "done"
    /\ Len(checked) = 3
    /\ Len(stdout) = 2
    /\ Len(download_log) = 2

\* The entries of checked whose raw targets include a crate without
\* description (None).
AbsentTargetChecked ==
    {i \in DOMAIN checked :
        \E t \in checked[i].raw : Description(t) = NoDescription}

\* C22: filter_targets never fails because the description of a raw target
\* is None: with a blank candidate description and in the Levenshtein
\* fallback it returns, in the semantic mode it fails at most on another
\* target that has no vector, and the run does not end on a TypeError.
C22_AbsentDescriptionNeverFails ==
    \A i \in AbsentTargetChecked :
        /\ checked[i].mode \in {"blank", "levenshtein"} => checked[i].raised = ""
        /\ checked[i].mode = "semantic" => checked[i].raised \in {"", "ValueError"}
        /\ ~(pc = "traceback" /\ summary = "TypeError")

=============================================================================
